---- MODULE Spec2Model ----
(***************************************************************************)
(* Core-group pool and thread-affinity binding of                          *)
(* storage-proofs-porep/src/stacked/vanilla/cores.rs.                      *)
(*                                                                         *)
(* The state is the two lazy statics (CORE_GROUPS, TOPOLOGY), the          *)
(* operating system's per-thread CPU and memory binding, and for every     *)
(* thread the guards and Cleanup tokens it owns and its position in the    *)
(* function it is executing.                                               *)
(***************************************************************************)
EXTENDS Integers, Sequences, FiniteSets, Bags, TLC

\* ---------------------------------------------------------------- bounds
\* Threads that use the pool and bind themselves.
NThreads == 2
\* Guards a thread keeps at a time when threads compete for the pool.
MaxGuards == 1
\* Cleanup tokens a thread keeps alive at a time.
MaxTokens == 1
\* Bind scopes a thread nests.
MaxNest == 2

Threads == 1..NThreads

\* ------------------------------------------------------- Option<T> values
\* Option<T> is a sequence of length 0 (None) or 1 (Some(x)).
None == <<>>
Some(x) == <<x>>
IsSome(o) == Len(o) = 1
IsNone(o) == Len(o) = 0
Unwrap(o) == o[1]

Range(s) == {s[k] : k \in 1..Len(s)}

\* --------------------------------------------------------- configuration
\* SETTINGS.multicore_sdr_core_plan: any string of the configuration.
PlanNames == {"DELL7525", "dell7525", "PLAN_X"}

\* ------------------------------------------------------------ core plans
\* The "DELL7525" arm of core_groups, entry by entry.
DELL7525_groups ==
    << <<0, 1, 2, 3>>,
       <<4, 5, 6, 7>>,
       <<8, 9, 10, 11>>,
       <<12, 13, 14, 15>>,
       <<20, 21, 22, 23>>,
       <<24, 25, 26, 27>>,
       <<28, 29, 30, 31>>,
       <<36, 37, 38, 39>>,
       <<40, 41, 42, 43>>,
       <<44, 45, 46, 47>>,
       <<48, 49, 50, 51>>,
       <<52, 53, 54, 55>>,
       <<56, 57, 58, 59>>,
       <<60, 61, 62, 63>>,
       <<64, 65, 66, 67>>,
       <<68, 69, 70, 71>>,
       <<72, 73, 74, 75>>,
       <<76, 77, 78, 79>>,
       <<84, 85, 86, 87>>,
       <<88, 89, 90, 91>>,
       <<92, 93, 94, 95>>,
       <<100, 101, 102, 103>>,
       <<104, 105, 106, 107>>,
       <<108, 109, 110, 111>>,
       <<112, 113, 114, 115>>,
       <<116, 117, 118, 119>>,
       <<120, 121, 122, 123>>,
       <<124, 125, 126, 127>> >>

\* The `_` arm of core_groups.
default_groups == << <<0, 1, 2, 3>> >>

\* Mutex::new(v): an unlocked mutex around v, not poisoned.
MutexNew(v) == [locked |-> FALSE, poisoned |-> FALSE, data |-> v]

\* core_groups with the four GPU blocks left in the table.
core_groups_gpu(plan) ==
    LET gpu == << <<16, 17, 18, 19>>, <<32, 33, 34, 35>>,
                  <<80, 81, 82, 83>>, <<96, 97, 98, 99>> >>
        custom_groups == IF plan = "DELL7525" THEN DELL7525_groups \o gpu
                                              ELSE default_groups
    IN  Some([k \in 1..Len(custom_groups) |-> MutexNew(custom_groups[k])])

\* core_groups with no pool for a plan name it does not know.
core_groups_strict(plan) ==
    IF plan = "DELL7525"
    THEN Some([k \in 1..Len(DELL7525_groups) |-> MutexNew(DELL7525_groups[k])])
    ELSE None

\* core_groups(core_plan): Some(vector of one mutex per group of the plan).
core_groups(plan) ==
    LET custom_groups == IF plan = "DELL7525" THEN DELL7525_groups
                                              ELSE default_groups
    IN  Some([k \in 1..Len(custom_groups) |-> MutexNew(custom_groups[k])])

\* try_lock that does not look at the lock.
try_lock_always(m) == [ok |-> TRUE, mutex |-> [m EXCEPT !.locked = TRUE]]

\* try_lock that hands out a poisoned mutex like a sound one.
try_lock_recover(m) ==
    IF m.locked THEN [ok |-> FALSE, mutex |-> m]
                ELSE [ok |-> TRUE, mutex |-> [m EXCEPT !.locked = TRUE]]

\* Mutex::try_lock: never waits; Err(WouldBlock) when the mutex is locked
\* (also when the caller itself holds it), Err(Poisoned(guard)) when it is
\* poisoned: the guard inside the error is dropped with the error, so the
\* mutex is left unlocked.
try_lock(m) ==
    IF m.locked \/ m.poisoned
    THEN [ok |-> FALSE, mutex |-> m]
    ELSE [ok |-> TRUE, mutex |-> [m EXCEPT !.locked = TRUE]]

\* A guard whose drop leaves the mutex locked.
unlock_noop(m, unwinding) == m

\* Drop of a MutexGuard: the mutex is unlocked, and poisoned when the
\* guard is dropped by a thread that is panicking.
unlock(m, unwinding) ==
    [m EXCEPT !.locked = FALSE, !.poisoned = @ \/ unwinding]

\* lock() that recovers the guard of a poisoned mutex.
lock_recover(m) == [ok |-> TRUE, mutex |-> [m EXCEPT !.locked = TRUE]]

\* Mutex::lock on a free mutex (it waits while the mutex is locked): Ok(guard),
\* or Err(Poisoned(guard)) when the mutex is poisoned; the callers
\* `.expect(..)` the result, which drops that guard and panics.
lock(m) ==
    IF m.poisoned THEN [ok |-> FALSE, mutex |-> m]
                  ELSE [ok |-> TRUE, mutex |-> [m EXCEPT !.locked = TRUE]]

\* ------------------------------------------------------------- topology
\* What Topology::new() can load. cores_ok: whether
\* objects_with_type(&ObjectType::Core) answers; cores: the allowed cpuset
\* of each core, in enumeration order (None: the core has none).
Machines ==
    { [cores_ok |-> TRUE, cores |-> <<Some({0, 1}), Some({2, 3})>>],
      [cores_ok |-> TRUE, cores |-> <<Some({0}), None, Some({2})>>],
      [cores_ok |-> FALSE, cores |-> <<>>] }

AllPUs == {0, 1, 2, 3}

\* The bindings a thread starts with (it inherits them from the thread that
\* spawned it): unbound, or bound by the process's launcher to different
\* CPU and memory sets.
InheritedBindings ==
    { [cpu |-> AllPUs, mem |-> [set |-> AllPUs, policy |-> "MEMBIND_DEFAULT"]],
      [cpu |-> {2, 3}, mem |-> [set |-> {0, 1}, policy |-> "MEMBIND_BIND"]] }

Min(S) == CHOOSE x \in S : \A y \in S : x <= y

\* A singlify that leaves the set as it is.
singlify_none(S) == S

\* Bitmap::singlify: keep only the first (lowest) index of the set.
singlify(S) == IF S = {} THEN {} ELSE {Min(S)}

\* get_core_by_index whose index wraps around the core count.
get_core_by_index_wrap(topo, idx) ==
    IF topo.cores_ok /\ Len(topo.cores) > 0
    THEN [ok |-> TRUE, core |-> idx % Len(topo.cores)]
    ELSE [ok |-> FALSE, core |-> 0]

\* get_core_by_index: Ok(all_cores[idx]) when the enumeration answers and
\* idx < all_cores.len(), an error otherwise.
get_core_by_index(topo, idx) ==
    IF topo.cores_ok /\ idx < Len(topo.cores)
    THEN [ok |-> TRUE, core |-> idx]
    ELSE [ok |-> FALSE, core |-> 0]

\* core.allowed_cpuset() of the core at enumeration position c.
allowed_cpuset(topo, c) == topo.cores[c + 1]

\* A token that forgets the snapshot.
Cleanup_forget(tid, prior_state) == [tid |-> tid, prior_state |-> None]

\* Cleanup { tid, prior_state }.
Cleanup(tid, prior_state) == [tid |-> tid, prior_state |-> prior_state]

\* ----------------------------------------------------------------- state
VARIABLES
    core_plan,    \* SETTINGS.multicore_sdr_core_plan
    CORE_GROUPS,  \* the lazy static: <<>> before its first use, then
                  \* <<core_groups(core_plan)>>
    TOPOLOGY,     \* the lazy static Mutex<Topology>
    cpubind,      \* cpubind[t]: the CPU binding of thread t (a set of PUs)
    membind,      \* membind[t]: the memory binding of thread t
    pc,           \* pc[t]: where thread t is
    scan,         \* scan[t]: the index i of the loop of checkout_core_group
    arg,          \* arg[t]: the argument of the bind_core or drop under way
    guards,       \* guards[t]: the bag of groups whose MutexGuard t owns
    tokens,       \* tokens[t]: the Cleanup values thread t owns, oldest first
    panicking,    \* panicking[t]: thread t is unwinding from a panic
                  \* (std::thread::panicking()), or has died of it
    \* History, read by the properties only:
    tried,        \* tried[t]: the groups the checkout under way has tried
    busy,         \* busy[t]: every group has been locked at every moment
                  \* since the checkout under way was entered
    calm,         \* calm[t]: no guard has been released since the checkout
                  \* under way was entered
    made,         \* made[t][k]: the bindings and the number of tokens
                  \* thread t had when bind_core made tokens[t][k], its
                  \* CPU binding before the oldest token alive then was
                  \* made (base), whether that bind_core's
                  \* set_cpubind_for_thread succeeded, and whether a later
                  \* bind_core has returned a token while this one was
                  \* alive (deep)
    last          \* the call the last step completed, if it completed one

poolVars == <<core_plan, CORE_GROUPS, scan, guards, tried, busy, calm>>
bindVars == <<TOPOLOGY, cpubind, membind, arg, tokens, made>>
vars == <<core_plan, CORE_GROUPS, TOPOLOGY, cpubind, membind, pc, scan, arg,
          guards, tokens, panicking, tried, busy, calm, made, last>>

NoMem == [set |-> {}, policy |-> ""]
NoMade == [cpu0 |-> {}, mem0 |-> NoMem, ntok0 |-> 0, base |-> {},
           cpu_ok |-> TRUE, deep |-> FALSE]
\* The argument of a call under way: the index given to bind_core, or the
\* prior_state taken out of the token being dropped (with its history).
NoArg == [idx |-> 0, prior |-> None, by |-> NoMade]
\* A completed call: the thread, the function, for checkout_core_group the
\* group returned, the guards the caller held on entry, the groups tried,
\* whether every group stayed locked throughout and whether no guard was
\* released meanwhile; for bind_core and drop the argument, the result,
\* the hwloc calls made, whether every set call among them succeeded, and
\* whether set_cpubind_for_thread (cpu_ok) and set_membind (mem_ok) did.
NoLast == [t |-> 0, op |-> "", ret |-> None, held |-> 0, tried |-> <<>>,
           busy |-> FALSE, calm |-> FALSE, idx |-> 0, prior |-> None,
           by |-> NoMade, res |-> "", calls |-> <<>>, sets |-> TRUE,
           cpu_ok |-> TRUE, mem_ok |-> TRUE]

Initialized == Len(CORE_GROUPS) = 1
\* &*CORE_GROUPS once initialised: an Option<Vec<Mutex<CoreGroup>>>.
PoolOpt == CORE_GROUPS[1]
Groups == IF Initialized /\ IsSome(PoolOpt) THEN Unwrap(PoolOpt) ELSE <<>>
NGroups == Len(Groups)
AllLocked(gs) == \A g \in 1..Len(gs) : gs[g].locked

Init ==
    /\ core_plan \in PlanNames
    /\ CORE_GROUPS = <<>>
    /\ \E topo \in Machines : TOPOLOGY = MutexNew(topo)
    /\ \E b \in InheritedBindings :
          /\ cpubind = [t \in Threads |-> b.cpu]
          /\ membind = [t \in Threads |-> b.mem]
    /\ pc = [t \in Threads |-> "idle"]
    /\ scan = [t \in Threads |-> 0]
    /\ arg = [t \in Threads |-> NoArg]
    /\ guards = [t \in Threads |-> EmptyBag]
    /\ tokens = [t \in Threads |-> <<>>]
    /\ tried = [t \in Threads |-> <<>>]
    /\ busy = [t \in Threads |-> FALSE]
    /\ calm = [t \in Threads |-> FALSE]
    /\ panicking = [t \in Threads |-> FALSE]
    /\ made = [t \in Threads |-> <<>>]
    /\ last = NoLast

\* -------------------------------------------------- checkout_core_group
Checkout(t, ret) ==
    [NoLast EXCEPT !.t = t, !.op = "checkout", !.ret = ret,
                   !.held = BagCardinality(guards[t])]

\* checkout_core_group over a pool that is built anew by every call.
CheckoutCallFresh(t) ==
    /\ pc[t] = "idle"
    /\ LET cg == <<core_groups(core_plan)>>
       IN  /\ CORE_GROUPS' = cg
           /\ pc' = [pc EXCEPT ![t] = "scan"]
           /\ scan' = [scan EXCEPT ![t] = 1]
           /\ busy' = [busy EXCEPT ![t] = AllLocked(Unwrap(cg[1]))]
           /\ calm' = [calm EXCEPT ![t] = TRUE]
           /\ last' = NoLast
    /\ UNCHANGED <<core_plan, guards, tried, panicking, bindVars>>

\* checkout_core_group whose loop starts at the last group of the pool
\* instead of the first.
CheckoutCallFromLast(t) ==
    /\ pc[t] = "idle"
    /\ LET cg == IF Initialized THEN CORE_GROUPS
                                ELSE <<core_groups(core_plan)>>
       IN  /\ CORE_GROUPS' = cg
           /\ IF IsNone(cg[1])
              THEN /\ last' = Checkout(t, None)
                   /\ UNCHANGED <<pc, scan, busy, calm>>
              ELSE /\ pc' = [pc EXCEPT ![t] = "scan"]
                   /\ scan' = [scan EXCEPT ![t] = Len(Unwrap(cg[1]))]
                   /\ busy' = [busy EXCEPT ![t] = AllLocked(Unwrap(cg[1]))]
                   /\ calm' = [calm EXCEPT ![t] = TRUE]
                   /\ last' = NoLast
    /\ UNCHANGED <<core_plan, guards, tried, panicking, bindVars>>

\* Entry: `match &*CORE_GROUPS` (the first dereference runs the lazy
\* initialiser), the None arm returns None, the Some arm starts the loop.
CheckoutCall(t) ==
    /\ pc[t] = "idle"
    /\ LET cg == IF Initialized THEN CORE_GROUPS
                                ELSE <<core_groups(core_plan)>>
       IN  /\ CORE_GROUPS' = cg
           /\ IF IsNone(cg[1])
              THEN /\ last' = Checkout(t, None)
                   /\ UNCHANGED <<pc, scan, busy, calm>>
              ELSE /\ pc' = [pc EXCEPT ![t] = "scan"]
                   /\ scan' = [scan EXCEPT ![t] = 1]
                   /\ busy' = [busy EXCEPT ![t] = AllLocked(Unwrap(cg[1]))]
                   /\ calm' = [calm EXCEPT ![t] = TRUE]
                   /\ last' = NoLast
    /\ UNCHANGED <<core_plan, guards, tried, panicking, bindVars>>

\* The loop with group.lock() in place of group.try_lock(): the iteration
\* waits for the group to be free.
TryLockBlocking(t) ==
    /\ pc[t] = "scan"
    /\ scan[t] <= NGroups
    /\ ~Groups[scan[t]].locked
    /\ LET i == scan[t]
       IN  /\ CORE_GROUPS' = <<Some([Groups EXCEPT ![i].locked = TRUE])>>
           /\ guards' = [guards EXCEPT ![t] = @ (+) SetToBag({i})]
           /\ last' = [Checkout(t, Some(i)) EXCEPT
                         !.tried = Append(tried[t], i), !.busy = busy[t],
                         !.calm = calm[t]]
    /\ pc' = [pc EXCEPT ![t] = "idle"]
    /\ scan' = [scan EXCEPT ![t] = 0]
    /\ tried' = [tried EXCEPT ![t] = <<>>]
    /\ busy' = [busy EXCEPT ![t] = FALSE]
    /\ calm' = [calm EXCEPT ![t] = FALSE]
    /\ UNCHANGED <<core_plan, panicking, bindVars>>

\* One iteration of the loop: group.try_lock(), Ok returns the guard, Err
\* goes on to the next group.
TryLock(t) ==
    /\ pc[t] = "scan"
    /\ scan[t] <= NGroups
    /\ LET i == scan[t]
           r == try_lock(Groups[i])
       IN  IF r.ok
           THEN /\ CORE_GROUPS' = <<Some([Groups EXCEPT ![i] = r.mutex])>>
                /\ guards' = [guards EXCEPT ![t] = @ (+) SetToBag({i})]
                /\ pc' = [pc EXCEPT ![t] = "idle"]
                /\ scan' = [scan EXCEPT ![t] = 0]
                /\ tried' = [tried EXCEPT ![t] = <<>>]
                /\ busy' = [busy EXCEPT ![t] = FALSE]
                /\ calm' = [calm EXCEPT ![t] = FALSE]
                /\ last' = [Checkout(t, Some(i)) EXCEPT
                              !.tried = Append(tried[t], i), !.busy = busy[t],
                              !.calm = calm[t]]
           ELSE /\ scan' = [scan EXCEPT ![t] = i + 1]
                /\ tried' = [tried EXCEPT ![t] = Append(@, i)]
                /\ last' = NoLast
                /\ UNCHANGED <<CORE_GROUPS, guards, pc, busy, calm>>
    /\ UNCHANGED <<core_plan, panicking, bindVars>>

\* The loop has run out of groups: return None.
ScanEnd(t) ==
    /\ pc[t] = "scan"
    /\ scan[t] > NGroups
    /\ pc' = [pc EXCEPT ![t] = "idle"]
    /\ scan' = [scan EXCEPT ![t] = 0]
    /\ tried' = [tried EXCEPT ![t] = <<>>]
    /\ busy' = [busy EXCEPT ![t] = FALSE]
    /\ calm' = [calm EXCEPT ![t] = FALSE]
    /\ last' = [Checkout(t, None) EXCEPT !.tried = tried[t], !.busy = busy[t],
                                         !.calm = calm[t]]
    /\ UNCHANGED <<core_plan, CORE_GROUPS, guards, panicking, bindVars>>

\* A guard thread t owns, the one over group g, goes out of scope: at the
\* end of its block, or while t unwinds from a panic.
ReleaseGuard(t, g) ==
    /\ pc[t] = "idle"
    /\ BagIn(g, guards[t])
    /\ CORE_GROUPS' = <<Some([Groups EXCEPT ![g] = unlock(@, panicking[t])])>>
    /\ guards' = [guards EXCEPT ![t] = @ (-) SetToBag({g})]
    /\ busy' = [u \in Threads |-> FALSE]
    /\ calm' = [u \in Threads |-> FALSE]
    /\ last' = [NoLast EXCEPT !.t = t, !.op = "release", !.ret = Some(g),
                              !.held = BagCardinality(guards[t])]
    /\ UNCHANGED <<core_plan, pc, scan, tried, panicking, bindVars>>

\* ------------------------------------------------------------ bind_core
RemoveAt(s, k) == SubSeq(s, 1, k - 1) \o SubSeq(s, k + 1, Len(s))

\* bind_core(core_index) is called; the thread goes to TOPOLOGY.lock().
BindCall(t, idx) ==
    /\ pc[t] = "idle"
    /\ pc' = [pc EXCEPT ![t] = "bind_lock"]
    /\ arg' = [arg EXCEPT ![t] = [NoArg EXCEPT !.idx = idx]]
    /\ last' = NoLast
    /\ UNCHANGED <<poolVars, TOPOLOGY, cpubind, membind, tokens, panicking,
                   made>>

\* child_topo.lock().expect("poisoned lock") returns once the topology lock
\* is free, and panics when the lock is poisoned: bind_core is left by
\* unwinding.
BindLock(t) ==
    /\ pc[t] = "bind_lock"
    /\ ~TOPOLOGY.locked
    /\ LET r == lock(TOPOLOGY)
       IN  /\ TOPOLOGY' = r.mutex
           /\ IF r.ok
              THEN /\ pc' = [pc EXCEPT ![t] = "bind_body"]
                   /\ last' = NoLast
                   /\ UNCHANGED <<arg, panicking>>
              ELSE /\ pc' = [pc EXCEPT ![t] = "idle"]
                   /\ arg' = [arg EXCEPT ![t] = NoArg]
                   /\ panicking' = [panicking EXCEPT ![t] = TRUE]
                   /\ last' = [NoLast EXCEPT !.t = t, !.op = "bind_core",
                                             !.idx = arg[t].idx,
                                             !.res = "panic(poisoned lock)"]
    /\ UNCHANGED <<poolVars, cpubind, membind, tokens, made>>

\* bind_core that reads the thread's binding after it has set the new
\* one: the snapshot is the binding bind_core itself has made.
BindBodyLate(t) ==
    /\ pc[t] = "bind_body"
    /\ LET topo == TOPOLOGY.data
           idx == arg[t].idx
           r == get_core_by_index(topo, idx)
           Fail(res, made_calls) ==
               /\ last' = [NoLast EXCEPT !.t = t, !.op = "bind_core",
                                         !.idx = idx, !.res = res,
                                         !.calls = made_calls]
               /\ UNCHANGED <<cpubind, membind, tokens, made>>
       IN  IF ~r.ok
           THEN Fail("Err(failed to get core)", <<"objects_with_type">>)
           ELSE
           LET cpuset == allowed_cpuset(topo, r.core)
           IN  IF IsNone(cpuset)
               THEN Fail("Err(no allowed cpuset)",
                         <<"objects_with_type", "allowed_cpuset">>)
               ELSE
               \E snap_ok, cpu_ok, mem_ok \in BOOLEAN :
               LET bind_to == singlify(Unwrap(cpuset))
                   before == IF snap_ok
                             THEN Some(IF cpu_ok THEN bind_to ELSE cpubind[t])
                             ELSE None
               IN  /\ cpubind' = IF cpu_ok THEN [cpubind EXCEPT ![t] = bind_to]
                                           ELSE cpubind
                   /\ membind' = IF mem_ok
                                  THEN [membind EXCEPT ![t] =
                                          [set |-> bind_to,
                                           policy |-> "MEMBIND_BIND"]]
                                  ELSE membind
                   /\ tokens' = [tokens EXCEPT ![t] =
                                   Append(@, Cleanup(t, before))]
                   /\ made' = [made EXCEPT ![t] =
                                 Append([k \in 1..Len(made[t]) |->
                                           [made[t][k] EXCEPT !.deep = TRUE]],
                                        [cpu0 |-> cpubind[t],
                                         mem0 |-> membind[t],
                                         ntok0 |-> Len(tokens[t]),
                                         base |-> IF Len(tokens[t]) = 0
                                                  THEN cpubind[t]
                                                  ELSE made[t][1].base,
                                         cpu_ok |-> cpu_ok,
                                         deep |-> FALSE])]
                   /\ last' = [NoLast EXCEPT
                                 !.t = t, !.op = "bind_core", !.idx = idx,
                                 !.res = "Ok", !.prior = before,
                                 !.sets = cpu_ok /\ mem_ok,
                                 !.cpu_ok = cpu_ok, !.mem_ok = mem_ok,
                                 !.calls = <<"objects_with_type",
                                             "allowed_cpuset", "get_cpubind",
                                             "set_cpubind", "set_membind">>]
    /\ TOPOLOGY' = unlock(TOPOLOGY, FALSE)
    /\ pc' = [pc EXCEPT ![t] = "idle"]
    /\ arg' = [arg EXCEPT ![t] = NoArg]
    /\ UNCHANGED <<poolVars, panicking>>

\* The body of bind_core under the topology lock, to its return (which
\* drops locked_topo). snap_ok, cpu_ok, mem_ok: whether get_cpubind,
\* set_cpubind and set_membind succeed.
BindBody(t) ==
    /\ pc[t] = "bind_body"
    /\ LET topo == TOPOLOGY.data
           idx == arg[t].idx
           r == get_core_by_index(topo, idx)
           Fail(res, made_calls) ==
               /\ last' = [NoLast EXCEPT !.t = t, !.op = "bind_core",
                                         !.idx = idx, !.res = res,
                                         !.calls = made_calls]
               /\ UNCHANGED <<cpubind, membind, tokens, made>>
       IN  IF ~r.ok
           THEN Fail("Err(failed to get core)", <<"objects_with_type">>)
           ELSE
           LET cpuset == allowed_cpuset(topo, r.core)
           IN  IF IsNone(cpuset)
               THEN Fail("Err(no allowed cpuset)",
                         <<"objects_with_type", "allowed_cpuset">>)
               ELSE
               \E snap_ok, cpu_ok, mem_ok \in BOOLEAN :
               LET bind_to == singlify(Unwrap(cpuset))
                   before == IF snap_ok THEN Some(cpubind[t]) ELSE None
               IN  /\ cpubind' = IF cpu_ok THEN [cpubind EXCEPT ![t] = bind_to]
                                           ELSE cpubind
                   /\ membind' = IF mem_ok
                                  THEN [membind EXCEPT ![t] =
                                          [set |-> bind_to,
                                           policy |-> "MEMBIND_BIND"]]
                                  ELSE membind
                   /\ tokens' = [tokens EXCEPT ![t] =
                                   Append(@, Cleanup(t, before))]
                   /\ made' = [made EXCEPT ![t] =
                                 Append([k \in 1..Len(made[t]) |->
                                           [made[t][k] EXCEPT !.deep = TRUE]],
                                        [cpu0 |-> cpubind[t],
                                         mem0 |-> membind[t],
                                         ntok0 |-> Len(tokens[t]),
                                         base |-> IF Len(tokens[t]) = 0
                                                  THEN cpubind[t]
                                                  ELSE made[t][1].base,
                                         cpu_ok |-> cpu_ok,
                                         deep |-> FALSE])]
                   /\ last' = [NoLast EXCEPT
                                 !.t = t, !.op = "bind_core", !.idx = idx,
                                 !.res = "Ok", !.prior = before,
                                 !.sets = cpu_ok /\ mem_ok,
                                 !.cpu_ok = cpu_ok, !.mem_ok = mem_ok,
                                 !.calls = <<"objects_with_type",
                                             "allowed_cpuset", "get_cpubind",
                                             "set_cpubind", "set_membind">>]
    /\ TOPOLOGY' = unlock(TOPOLOGY, FALSE)
    /\ pc' = [pc EXCEPT ![t] = "idle"]
    /\ arg' = [arg EXCEPT ![t] = NoArg]
    /\ UNCHANGED <<poolVars, panicking>>

\* ------------------------------------------------------ Drop for Cleanup
\* drop with the restoration done also when the token has no snapshot:
\* the thread is then bound to every processor.
DropCallDefault(t, k) ==
    /\ pc[t] = "idle"
    /\ k \in 1..Len(tokens[t])
    /\ LET tok == tokens[t][k]
       IN  arg' = [arg EXCEPT ![t] =
                     [NoArg EXCEPT
                        !.prior = IF IsSome(tok.prior_state)
                                  THEN tok.prior_state ELSE Some(AllPUs),
                        !.by = made[t][k]]]
    /\ pc' = [pc EXCEPT ![t] = "drop_lock"]
    /\ last' = NoLast
    /\ tokens' = [tokens EXCEPT ![t] = RemoveAt(@, k)]
    /\ made' = [made EXCEPT ![t] = RemoveAt(@, k)]
    /\ UNCHANGED <<poolVars, TOPOLOGY, cpubind, membind, panicking>>

\* The k-th token of thread t goes out of scope: `if let Some(prior) =
\* self.prior_state.take()`, and nothing at all when there is none.
DropCall(t, k) ==
    /\ pc[t] = "idle"
    /\ k \in 1..Len(tokens[t])
    /\ LET tok == tokens[t][k]
       IN  IF IsSome(tok.prior_state)
           THEN /\ pc' = [pc EXCEPT ![t] = "drop_lock"]
                /\ arg' = [arg EXCEPT ![t] =
                             [NoArg EXCEPT !.prior = tok.prior_state,
                                           !.by = made[t][k]]]
                /\ last' = NoLast
           ELSE /\ last' = [NoLast EXCEPT !.t = t, !.op = "drop",
                                          !.by = made[t][k], !.res = "Ok"]
                /\ UNCHANGED <<pc, arg>>
    /\ tokens' = [tokens EXCEPT ![t] = RemoveAt(@, k)]
    /\ made' = [made EXCEPT ![t] = RemoveAt(@, k)]
    /\ UNCHANGED <<poolVars, TOPOLOGY, cpubind, membind, panicking>>

\* child_topo.lock().expect("poisded lock") in drop returns once the
\* topology lock is free, and panics when the lock is poisoned: drop is
\* left by unwinding, and a panic of a thread that is already unwinding
\* aborts the process.
DropLock(t) ==
    /\ pc[t] = "drop_lock"
    /\ ~TOPOLOGY.locked
    /\ LET r == lock(TOPOLOGY)
       IN  /\ TOPOLOGY' = r.mutex
           /\ IF r.ok
              THEN /\ pc' = [pc EXCEPT ![t] = "drop_body"]
                   /\ last' = NoLast
                   /\ UNCHANGED <<arg, panicking>>
              ELSE /\ pc' = IF panicking[t]
                             THEN [u \in Threads |-> "aborted"]
                             ELSE [pc EXCEPT ![t] = "idle"]
                   /\ arg' = [arg EXCEPT ![t] = NoArg]
                   /\ panicking' = [panicking EXCEPT ![t] = TRUE]
                   /\ last' = [NoLast EXCEPT
                                 !.t = t, !.op = "drop",
                                 !.prior = arg[t].prior, !.by = arg[t].by,
                                 !.res = IF panicking[t]
                                         THEN "abort(poisoned lock)"
                                         ELSE "panic(poisoned lock)"]
    /\ UNCHANGED <<poolVars, cpubind, membind, tokens, made>>

\* drop that unwraps the results of the restoring calls: a failing call
\* panics under the lock.
DropBodyStrict(t) ==
    /\ pc[t] = "drop_body"
    /\ \E cpu_ok, mem_ok \in BOOLEAN :
         LET prior == Unwrap(arg[t].prior)
         IN  /\ cpubind' = IF cpu_ok THEN [cpubind EXCEPT ![t] = prior]
                                     ELSE cpubind
             /\ membind' = IF cpu_ok /\ mem_ok
                            THEN [membind EXCEPT ![t] =
                                    [set |-> prior,
                                     policy |-> "MEMBIND_DEFAULT"]]
                            ELSE membind
             /\ last' = [NoLast EXCEPT
                           !.t = t, !.op = "drop", !.prior = arg[t].prior,
                           !.by = arg[t].by,
                           !.res = IF cpu_ok /\ mem_ok
                                   THEN "Ok" ELSE "panic(restore failed)",
                           !.sets = cpu_ok /\ mem_ok,
                           !.cpu_ok = cpu_ok, !.mem_ok = mem_ok,
                           !.calls = <<"set_cpubind", "set_membind">>]
             /\ TOPOLOGY' = unlock(TOPOLOGY, ~(cpu_ok /\ mem_ok))
             /\ panicking' = [panicking EXCEPT ![t] = @ \/ ~(cpu_ok /\ mem_ok)]
    /\ pc' = [pc EXCEPT ![t] = "idle"]
    /\ arg' = [arg EXCEPT ![t] = NoArg]
    /\ UNCHANGED <<poolVars, tokens, made>>

\* The two restoring calls under the topology lock, their results
\* discarded (`let _ =`), then the lock is dropped. cpu_ok, mem_ok: whether
\* set_cpubind_for_thread and set_membind succeed.
DropBody(t) ==
    /\ pc[t] = "drop_body"
    /\ \E cpu_ok, mem_ok \in BOOLEAN :
         LET prior == Unwrap(arg[t].prior)
         IN  /\ cpubind' = IF cpu_ok THEN [cpubind EXCEPT ![t] = prior]
                                     ELSE cpubind
             /\ membind' = IF mem_ok
                            THEN [membind EXCEPT ![t] =
                                    [set |-> prior,
                                     policy |-> "MEMBIND_DEFAULT"]]
                            ELSE membind
             /\ last' = [NoLast EXCEPT
                           !.t = t, !.op = "drop", !.prior = arg[t].prior,
                           !.by = arg[t].by, !.res = "Ok",
                           !.sets = cpu_ok /\ mem_ok,
                           !.cpu_ok = cpu_ok, !.mem_ok = mem_ok,
                           !.calls = <<"set_cpubind", "set_membind">>]
    /\ TOPOLOGY' = unlock(TOPOLOGY, FALSE)
    /\ pc' = [pc EXCEPT ![t] = "idle"]
    /\ arg' = [arg EXCEPT ![t] = NoArg]
    /\ UNCHANGED <<poolVars, tokens, panicking, made>>

\* ---------------------------------------------------------------- panics
\* A call made under the topology lock (a hwloc call, the logger) panics
\* before it has had an effect: locked_topo is dropped by the unwinding,
\* which poisons TOPOLOGY, and the function is left by unwinding. A panic
\* of a thread that is already unwinding aborts the process.
PanicInBody(t) ==
    /\ pc[t] \in {"bind_body", "drop_body"}
    /\ TOPOLOGY' = unlock(TOPOLOGY, TRUE)
    /\ pc' = IF panicking[t] THEN [u \in Threads |-> "aborted"]
                              ELSE [pc EXCEPT ![t] = "idle"]
    /\ panicking' = [panicking EXCEPT ![t] = TRUE]
    /\ arg' = [arg EXCEPT ![t] = NoArg]
    /\ last' = [NoLast EXCEPT
                  !.t = t,
                  !.op = IF pc[t] = "bind_body" THEN "bind_core" ELSE "drop",
                  !.idx = arg[t].idx, !.prior = arg[t].prior,
                  !.by = arg[t].by,
                  !.res = IF panicking[t] THEN "abort(call)"
                                          ELSE "panic(call)"]
    /\ UNCHANGED <<poolVars, cpubind, membind, tokens, made>>

\* The code of thread t that runs between two calls panics, while t owns
\* a guard.
PanicHolding(t) ==
    /\ pc[t] = "idle"
    /\ ~panicking[t]
    /\ guards[t] # EmptyBag
    /\ panicking' = [panicking EXCEPT ![t] = TRUE]
    /\ last' = NoLast
    /\ UNCHANGED <<poolVars, bindVars, pc>>

\* ------------------------------------------------------- specifications
\* No action of the pool reads the topology or a binding: the pool's
\* specifications start on one machine, with unbound threads.
PoolInit ==
    /\ Init
    /\ TOPOLOGY.data.cores_ok /\ Len(TOPOLOGY.data.cores) = 2
    /\ \A t \in Threads : cpubind[t] = AllPUs

\* The pool alone: every thread checks out and releases, owning at most
\* MaxGuards guards at a time.
PoolNext ==
    \E t \in Threads :
        \/ BagCardinality(guards[t]) < MaxGuards /\ CheckoutCall(t)
        \/ TryLock(t)
        \/ ScanEnd(t)
        \/ \E g \in BagToSet(guards[t]) : ReleaseGuard(t, g)

PoolSpec == PoolInit /\ [][PoolNext]_vars

\* One thread fills the pool, keeping every guard: it gives a guard back
\* only when the pool is exhausted, or when the guard is the one over the
\* highest group it holds.
Solo == 1
FillNext ==
    \/ CheckoutCall(Solo)
    \/ TryLock(Solo)
    \/ ScanEnd(Solo)
    \/ \E g \in BagToSet(guards[Solo]) :
          /\ AllLocked(Groups) \/ \A h \in BagToSet(guards[Solo]) : h <= g
          /\ ReleaseGuard(Solo, g)

FillSpec == PoolInit /\ [][FillNext]_vars

\* What a worker does: it checks out one group, binds itself to cores of
\* the group it holds, ends bind scopes and releases the group, owning at
\* most MaxTokens tokens at a time.
WorkerNext(t) ==
    \/ guards[t] = EmptyBag /\ CheckoutCall(t)
    \/ TryLock(t)
    \/ ScanEnd(t)
    \/ \E g \in BagToSet(guards[t]) : ReleaseGuard(t, g)
    \/ \E g \in BagToSet(guards[t]) : \E idx \in Range(Groups[g].data) :
          Len(tokens[t]) < MaxTokens /\ BindCall(t, idx)
    \/ BindLock(t)
    \/ BindBody(t)
    \/ \E k \in 1..MaxTokens : DropCall(t, k)
    \/ DropLock(t)
    \/ DropBody(t)

\* One worker alone. (Its loop never runs out of groups: nobody else holds
\* one, and it holds none when it calls.)
BindNext ==
    \/ guards[Solo] = EmptyBag /\ CheckoutCall(Solo)
    \/ TryLock(Solo)
    \/ \E g \in BagToSet(guards[Solo]) : ReleaseGuard(Solo, g)
    \/ \E g \in BagToSet(guards[Solo]) : \E idx \in Range(Groups[g].data) :
          Len(tokens[Solo]) < MaxTokens /\ BindCall(Solo, idx)
    \/ BindLock(Solo)
    \/ BindBody(Solo)
    \/ \E k \in 1..MaxTokens : DropCall(Solo, k)
    \/ DropLock(Solo)
    \/ DropBody(Solo)

\* The lone worker gets the first group, which holds the indices 0..3
\* under every plan: its specification starts with one plan.
BindInit == Init /\ core_plan = "PLAN_X"
BindSpec == BindInit /\ [][BindNext]_vars

\* One worker that nests its bind scopes: it calls bind_core again while
\* it owns tokens, and the token whose scope ends is always the youngest
\* one (values are dropped in the reverse of the order they were made in).
NestNext ==
    \/ guards[Solo] = EmptyBag /\ tokens[Solo] = <<>> /\ CheckoutCall(Solo)
    \/ TryLock(Solo)
    \/ \E g \in BagToSet(guards[Solo]) :
          tokens[Solo] = <<>> /\ ReleaseGuard(Solo, g)
    \/ \E g \in BagToSet(guards[Solo]) : \E idx \in Range(Groups[g].data) :
          Len(tokens[Solo]) < MaxNest /\ BindCall(Solo, idx)
    \/ BindLock(Solo)
    \/ BindBody(Solo)
    \/ DropCall(Solo, Len(tokens[Solo]))
    \/ DropLock(Solo)
    \/ DropBody(Solo)

\* The nest starts on the machine of two cores with two processing units
\* each, with the fallback plan, the thread unbound.
NestInit == PoolInit /\ core_plan = "PLAN_X"
NestSpec == NestInit /\ [][NestNext]_vars

\* All workers.
Next == \E t \in Threads : WorkerNext(t)
Spec == Init /\ [][Next]_vars

\* ------------------------------------------------- the worker control flow
\* The locks do not depend on the processors of the machine nor on the
\* bindings: the specifications about the locks run on a machine with one
\* core of one processor, every thread pinned to it from the start.
OneCore == [cores_ok |-> TRUE, cores |-> <<Some({0})>>]
WorkInit ==
    /\ core_plan \in PlanNames
    /\ CORE_GROUPS = <<>>
    /\ TOPOLOGY = MutexNew(OneCore)
    /\ cpubind = [t \in Threads |-> {0}]
    /\ membind = [t \in Threads |->
                    [set |-> {0}, policy |-> "MEMBIND_DEFAULT"]]
    /\ pc = [t \in Threads |-> "idle"]
    /\ scan = [t \in Threads |-> 0]
    /\ arg = [t \in Threads |-> NoArg]
    /\ guards = [t \in Threads |-> EmptyBag]
    /\ tokens = [t \in Threads |-> <<>>]
    /\ tried = [t \in Threads |-> <<>>]
    /\ busy = [t \in Threads |-> FALSE]
    /\ calm = [t \in Threads |-> FALSE]
    /\ panicking = [t \in Threads |-> FALSE]
    /\ made = [t \in Threads |-> <<>>]
    /\ last = NoLast

\* The index a worker picks in its group: the first one (the core exists)
\* or the last one (it does not, on this machine).
Picks(g) == {Groups[g].data[1], Groups[g].data[Len(Groups[g].data)]}

\* The control flow of a worker: check out a group, pick a core index of
\* the group, bind_core, compute, end of the bind scope, release of the
\* group; then again.
Flow(t) ==
    \/ guards[t] = EmptyBag /\ tokens[t] = <<>> /\ CheckoutCall(t)
    \/ TryLock(t)
    \/ ScanEnd(t)
    \/ \E g \in BagToSet(guards[t]) : \E idx \in Picks(g) :
          tokens[t] = <<>> /\ BindCall(t, idx)
    \/ BindLock(t)
    \/ BindBody(t)
    \/ DropCall(t, 1)
    \/ DropLock(t)
    \/ DropBody(t)
    \/ \E g \in BagToSet(guards[t]) : tokens[t] = <<>> /\ ReleaseGuard(t, g)

\* All workers, none of which panics.
WorkNext == \E t \in Threads : Flow(t)
WorkSpec == WorkInit /\ [][WorkNext]_vars

\* Fair scheduling: a thread that holds the topology lock goes on to its
\* return (it waits for nothing), and a thread that waits in
\* TOPOLOGY.lock() gets the lock if the lock is free again and again.
Fairness ==
    \A t \in Threads :
        /\ WF_vars(BindBody(t)) /\ WF_vars(DropBody(t))
        /\ SF_vars(BindLock(t)) /\ SF_vars(DropLock(t))
LiveSpec == WorkSpec /\ Fairness

\* What unwinding does in a thread that is panicking: it drops the token
\* and the guard the thread owns.
Unwind(t) ==
    \/ DropCall(t, 1)
    \/ DropLock(t)
    \/ DropBody(t)
    \/ \E g \in BagToSet(guards[t]) : ReleaseGuard(t, g)

\* Workers, with calls under the topology lock that can panic.
PanicNext ==
    \E t \in Threads :
        \/ ~panicking[t] /\ Flow(t)
        \/ panicking[t] /\ Unwind(t)
        \/ PanicInBody(t)
PanicSpec == WorkInit /\ [][PanicNext]_vars

\* The pool with holders that can panic: every thread checks out one
\* group at a time and releases it; a thread that panics while it owns the
\* guard drops it by unwinding and is gone, and the other threads go on.
PoisonNext ==
    \E t \in Threads :
        \/ ~panicking[t] /\ guards[t] = EmptyBag /\ CheckoutCall(t)
        \/ TryLock(t)
        \/ ScanEnd(t)
        \/ \E g \in BagToSet(guards[t]) : ReleaseGuard(t, g)
        \/ PanicHolding(t)
PoisonSpec == PoolInit /\ [][PoisonNext]_vars

\* ---------------------------------------------------------------- claims
RECURSIVE CopiesUpTo(_, _)
CopiesUpTo(g, n) ==
    IF n = 0 THEN 0 ELSE CopiesIn(g, guards[n]) + CopiesUpTo(g, n - 1)
\* The number of guards over group g that exist.
HoldersOf(g) == CopiesUpTo(g, NThreads)

RECURSIVE GuardsUpTo(_)
GuardsUpTo(n) ==
    IF n = 0 THEN 0 ELSE BagCardinality(guards[n]) + GuardsUpTo(n - 1)
\* The number of guards that exist.
TotalGuards == GuardsUpTo(NThreads)

FreeCount == Cardinality({g \in 1..NGroups : ~Groups[g].locked})
\* The step just taken was the return of a checkout_core_group call.
Returned == last.op = "checkout"

\* C1: in every reachable state of any interleaving of checkouts and
\* releases, every group has at most one guard, and a group that has a
\* guard is locked.
MutualExclusion ==
    \A g \in 1..NGroups :
        /\ HoldersOf(g) <= 1
        /\ HoldersOf(g) = 1 => Groups[g].locked

\* C1 witness: a thread has tried a group another thread holds, was
\* refused, and checked out a later group.
RefusedThenOther ==
    /\ Returned /\ IsSome(last.ret)
    /\ BagIn(Unwrap(last.ret), guards[last.t])
    /\ \E u \in Threads \ {last.t} : \E g \in Range(last.tried) :
          g # Unwrap(last.ret) /\ BagIn(g, guards[u])

\* C2: a checkout made by a thread that holds no guard, and the next one
\* it makes while keeping the first guard, both return a guard, over two
\* different groups, whatever the core plan.
TwoCheckoutsBothSucceed ==
    (Returned /\ last.held <= 1) =>
        /\ IsSome(last.ret)
        /\ last.held = 1 => Cardinality(BagToSet(guards[last.t])) = 2

\* C3: a thread inside checkout_core_group can always take its next step
\* (it never waits for a lock), it tries no group twice and no more groups
\* than the pool has, and a call during which every group stayed locked
\* returns None after trying them all.
NeverWaits ==
    /\ \A t \in Threads :
          /\ pc[t] = "scan" => ENABLED (TryLock(t) \/ ScanEnd(t))
          /\ Len(tried[t]) <= NGroups
          /\ Cardinality(Range(tried[t])) = Len(tried[t])
    /\ Returned =>
          /\ Len(last.tried) <= NGroups
          /\ Cardinality(Range(last.tried)) = Len(last.tried)
    /\ (Returned /\ last.busy) =>
          /\ IsNone(last.ret)
          /\ Len(last.tried) = NGroups

\* C3 witness: a call returned None, having found every group locked from
\* its entry to its return, while another thread kept every guard.
NoneWhileHeld ==
    /\ Returned /\ last.busy /\ IsNone(last.ret)
    /\ \E u \in Threads \ {last.t} : BagCardinality(guards[u]) = NGroups

\* C4: with every guard kept, each checkout made while fewer than N guards
\* are out returns a guard, N guards out are over the N groups, one each,
\* and a checkout made while N are out returns None.
PoolExhaustion ==
    /\ (Returned /\ last.held < NGroups) => IsSome(last.ret)
    /\ (Initialized /\ BagCardinality(guards[Solo]) = NGroups) =>
          \A g \in 1..NGroups : CopiesIn(g, guards[Solo]) = 1
    /\ (Returned /\ last.held = NGroups) => IsNone(last.ret)

\* C4 witness: all 28 groups of the DELL7525 pool are out and one more
\* checkout has returned None.
ExhaustedDell ==
    /\ core_plan = "DELL7525"
    /\ NGroups = Len(DELL7525_groups)
    /\ BagCardinality(guards[Solo]) = NGroups
    /\ Returned /\ last.held = NGroups
    /\ IsNone(last.ret)

\* C5: there are never more guards than groups and never fewer free groups
\* than groups minus guards; a release from an exhausted pool leaves
\* exactly one group free, the checkout that follows succeeds and exhausts
\* the pool again, and a checkout of an exhausted pool returns None.
CapacityInv ==
    Initialized =>
        /\ TotalGuards <= NGroups
        /\ FreeCount >= NGroups - TotalGuards
CapacityStep ==
    /\ (Initialized /\ FreeCount = 0 /\ TotalGuards' < TotalGuards) =>
          FreeCount' = 1
    /\ (pc[Solo] = "scan" /\ pc'[Solo] = "idle" /\ FreeCount = 1) =>
          IsSome(last'.ret) /\ FreeCount' = 0
    /\ (pc[Solo] = "scan" /\ pc'[Solo] = "idle" /\ FreeCount = 0) =>
          IsNone(last'.ret) /\ FreeCount' = 0
CapacityConserved == [](CapacityInv) /\ [][CapacityStep]_vars

\* C5 witness: the DELL7525 pool was exhausted, a guard over a group other
\* than the last was released, and the next checkout took that group and
\* exhausted the pool again.
RefilledAfterRelease ==
    /\ core_plan = "DELL7525"
    /\ Returned /\ IsSome(last.ret)
    /\ last.held = NGroups - 1
    /\ Unwrap(last.ret) < NGroups
    /\ FreeCount = 0

\* C6: when a token that carries a snapshot, made by a bind_core called
\* with no other token alive, has been dropped with both restoring calls
\* succeeding and no token left, the thread's CPU binding and its memory
\* binding are what they were on entry to that bind_core.
RestoredExactly ==
    (/\ last.op = "drop" /\ IsSome(last.prior) /\ last.sets
     /\ last.by.ntok0 = 0 /\ Len(tokens[last.t]) = 0) =>
        /\ cpubind[last.t] = last.by.cpu0
        /\ membind[last.t] = last.by.mem0

IsSetCall(name) == name \in {"set_cpubind", "set_membind"}

\* C7: a bind_core whose index is not below the number of enumerated cores
\* returns an error, having made no set call, and leaves the bindings of
\* every thread and the tokens as they were.
OutOfRangeStep ==
    \A t \in Threads :
        (/\ pc[t] = "bind_body" /\ pc'[t] = "idle"
         /\ TOPOLOGY.data.cores_ok
         /\ arg[t].idx >= Len(TOPOLOGY.data.cores)) =>
            /\ last'.op = "bind_core" /\ last'.t = t
            /\ last'.res = "Err(failed to get core)"
            /\ \A k \in 1..Len(last'.calls) : ~IsSetCall(last'.calls[k])
            /\ cpubind' = cpubind /\ membind' = membind
            /\ tokens' = tokens
OutOfRangeNoEffect == [][OutOfRangeStep]_vars

\* C7 witness: a bind_core with an index at or above the core count has
\* returned its error, on a machine that enumerates its cores.
OutOfRangeReturned ==
    /\ last.op = "bind_core"
    /\ TOPOLOGY.data.cores_ok
    /\ last.idx >= Len(TOPOLOGY.data.cores)
    /\ last.res = "Err(failed to get core)"

\* C8: the end of scope of a token without snapshot is one step that
\* completes normally, makes no hwloc call, does not touch the topology
\* lock and leaves every CPU and memory binding as it was.
NoSnapshotStep ==
    \A t \in Threads : \A k \in 1..Len(tokens[t]) :
        (/\ pc[t] = "idle"
         /\ tokens'[t] = RemoveAt(tokens[t], k)
         /\ IsNone(tokens[t][k].prior_state)) =>
            /\ pc'[t] = "idle"
            /\ last'.op = "drop" /\ last'.t = t /\ last'.res = "Ok"
            /\ last'.calls = <<>>
            /\ cpubind' = cpubind /\ membind' = membind
            /\ TOPOLOGY' = TOPOLOGY
NoSnapshotNoRestore == [][NoSnapshotStep]_vars

\* C8 witness: a token without snapshot has been dropped and the thread is
\* still bound to the one processor bind_core bound it to.
DroppedWithoutSnapshot ==
    /\ last.op = "drop" /\ IsNone(last.prior) /\ last.calls = <<>>
    /\ Cardinality(cpubind[last.t]) = 1
    /\ membind[last.t].policy = "MEMBIND_BIND"
    /\ membind[last.t].set = cpubind[last.t]

Block(a, b) == a..b

\* The core indices of the first n groups of gs, one after the other.
RECURSIVE Flatten(_, _)
Flatten(gs, n) == IF n = 0 THEN <<>> ELSE Flatten(gs, n - 1) \o gs[n].data

\* C9: the pool built for "DELL7525" has 28 groups of 4 core indices, no
\* core index is in two groups (nor twice in one), and the indices are
\* 0..127 without the four GPU blocks.
DellPlan ==
    (Initialized /\ core_plan = "DELL7525") =>
        /\ IsSome(PoolOpt)
        /\ NGroups = 28
        /\ \A k \in 1..NGroups : Len(Groups[k].data) = 4
        /\ LET all == Flatten(Groups, NGroups)
           IN  /\ Cardinality(Range(all)) = Len(all)
               /\ Range(all)
                     = Block(0, 127) \ (Block(16, 19) \cup Block(32, 35)
                                         \cup Block(80, 83) \cup Block(96, 99))

\* C9 witness: the pool has been built from the plan "DELL7525".
DellPoolBuilt == Initialized /\ core_plan = "DELL7525" /\ NGroups > 0

\* C10: the pool built for any other plan name is present and has exactly
\* one group, the core indices 0, 1, 2, 3.
FallbackPlan ==
    (Initialized /\ core_plan # "DELL7525") =>
        /\ IsSome(PoolOpt)
        /\ NGroups = 1
        /\ Groups[1].data = <<0, 1, 2, 3>>

\* C10 witness: the pool has been built from a plan name that differs from
\* the recognised one only in case.
FallbackPoolBuilt == Initialized /\ core_plan = "dell7525"

\* C11: a bind_core whose set_cpubind_for_thread fails leaves the CPU
\* binding alone, still calls set_membind, and returns Ok with a new token
\* that carries the snapshot taken (the CPU binding on entry, or none); the
\* end of scope of such a token that has a snapshot takes the topology
\* lock and makes both restoring calls with that snapshot.
CpuBindSoftStep ==
    \A t \in Threads :
        /\ (/\ pc[t] = "bind_body" /\ pc'[t] = "idle"
            /\ last'.op = "bind_core" /\ ~last'.cpu_ok) =>
               /\ last'.res = "Ok"
               /\ cpubind' = cpubind
               /\ last'.calls[Len(last'.calls)] = "set_membind"
               /\ last'.mem_ok =>
                     membind'[t].set = singlify(Unwrap(
                         allowed_cpuset(TOPOLOGY.data, arg[t].idx)))
               /\ Len(tokens'[t]) = Len(tokens[t]) + 1
               /\ LET tok == tokens'[t][Len(tokens'[t])]
                  IN  /\ tok.prior_state = last'.prior
                      /\ tok.prior_state \in {None, Some(cpubind[t])}
        /\ \A k \in 1..Len(tokens[t]) :
              (/\ pc[t] = "idle" /\ tokens'[t] = RemoveAt(tokens[t], k)
               /\ ~made[t][k].cpu_ok /\ IsSome(tokens[t][k].prior_state)) =>
                  /\ pc'[t] = "drop_lock"
                  /\ arg'[t].prior = tokens[t][k].prior_state
        /\ (/\ pc[t] = "drop_body" /\ pc'[t] = "idle"
            /\ last'.op = "drop" /\ last'.res = "Ok"
            /\ ~arg[t].by.cpu_ok) =>
               /\ last'.calls = <<"set_cpubind", "set_membind">>
               /\ last'.cpu_ok => cpubind'[t] = Unwrap(arg[t].prior)
CpuBindSoft == [][CpuBindSoftStep]_vars

\* C11 witness: a token returned by a bind_core whose CPU binding call
\* failed has been dropped, and its drop restored the snapshot.
CpuFailedThenRestored ==
    /\ last.op = "drop" /\ last.res = "Ok"
    /\ ~last.by.cpu_ok /\ IsSome(last.prior)
    /\ last.sets
    /\ cpubind[last.t] = Unwrap(last.prior)

\* C12 (as stated): every end of scope of a token completes normally, in
\* every state of the topology lock, unless a call it makes panics.
ScopeEndNeverFails ==
    (last.op = "drop" /\ last.res \notin {"panic(call)", "abort(call)"}) =>
        last.res = "Ok"

\* C12 (amended): the restoring calls are made under the lock and their
\* failures are swallowed (the scope end completes normally, the lock is
\* released sound, the thread does not panic); taking the lock goes on to
\* the restoring calls when the lock is not poisoned, and panics (aborts
\* the process, in a thread that is unwinding) when it is.
ScopeEndStep ==
    \A t \in Threads :
        /\ (pc[t] = "drop_body" /\ pc'[t] = "idle" /\ last'.op = "drop"
               /\ last'.res \notin {"panic(call)", "abort(call)"}) =>
               /\ last'.res = "Ok"
               /\ panicking'[t] = panicking[t]
               /\ ~TOPOLOGY'.locked /\ ~TOPOLOGY'.poisoned
        /\ (pc[t] = "drop_lock" /\ pc'[t] # "drop_lock") =>
               IF TOPOLOGY.poisoned
               THEN /\ panicking'[t]
                    /\ last'.op = "drop"
                    /\ last'.res = IF panicking[t]
                                   THEN "abort(poisoned lock)"
                                   ELSE "panic(poisoned lock)"
                    /\ panicking[t] => \A u \in Threads : pc'[u] = "aborted"
               ELSE pc'[t] = "drop_body" /\ panicking'[t] = panicking[t]
ScopeEndFailsOnlyPoisoned == [][ScopeEndStep]_vars

\* C12 witness: a scope end has completed normally although both
\* restoring calls failed.
RestoreFailureSwallowed ==
    /\ last.op = "drop" /\ last.res = "Ok"
    /\ ~last.cpu_ok /\ ~last.mem_ok
    /\ ~panicking[last.t] /\ pc[last.t] = "idle"

\* C13: once TOPOLOGY is poisoned it stays poisoned and free, no thread is
\* under it, every TOPOLOGY.lock() that returns (in bind_core, in drop)
\* panics, and no step makes a hwloc call or changes a binding.
PoisonFatalStep ==
    TOPOLOGY.poisoned =>
        /\ TOPOLOGY'.poisoned /\ ~TOPOLOGY'.locked
        /\ \A t \in Threads :
              /\ pc[t] \notin {"bind_body", "drop_body"}
              /\ (pc[t] \in {"bind_lock", "drop_lock"} /\ pc'[t] # pc[t]) =>
                    /\ panicking'[t]
                    /\ pc'[t] \in {"idle", "aborted"}
                    /\ last'.t = t
                    /\ last'.res \in {"panic(poisoned lock)",
                                      "abort(poisoned lock)"}
        /\ last'.calls = <<>>
        /\ cpubind' = cpubind /\ membind' = membind
PoisonFatal == [][PoisonFatalStep]_vars

\* C13 witness: a bind_core has panicked at the poisoned topology lock.
PanickedAtPoisonedLock ==
    /\ TOPOLOGY.poisoned
    /\ last.op = "bind_core" /\ last.res = "panic(poisoned lock)"
    /\ panicking[last.t]

\* The threads that hold the topology lock: those between the lock() of
\* bind_core or drop and the return.
UnderTopology == {t \in Threads : pc[t] \in {"bind_body", "drop_body"}}

\* C14 (as stated): no thread holds the topology lock and a group's guard
\* at the same time.
NeverNested == \A t \in UnderTopology : guards[t] = EmptyBag

\* C14 (amended): the topology lock is the innermost lock. It is held
\* exactly while one thread is between the lock() of a bind_core or drop
\* and the return of that call, and a thread that holds it is not in
\* checkout_core_group and neither takes nor releases a group's guard.
InnermostInv ==
    /\ Cardinality(UnderTopology) <= 1
    /\ TOPOLOGY.locked <=> UnderTopology # {}
    /\ \A t \in UnderTopology : pc[t] # "scan" /\ scan[t] = 0
InnermostStep ==
    \A t \in UnderTopology :
        /\ guards'[t] = guards[t]
        /\ pc'[t] # pc[t] => pc'[t] = "idle" /\ ~TOPOLOGY'.locked
TopologyLockInnermost == [](InnermostInv) /\ [][InnermostStep]_vars

\* C14 witness: a worker is inside bind_core, under the topology lock,
\* with the guard of its group, while another worker waits for the
\* topology lock.
NestedUnderGuard ==
    \E t, u \in Threads :
        /\ pc[t] = "bind_body" /\ guards[t] # EmptyBag /\ TOPOLOGY.locked
        /\ pc[u] \in {"bind_lock", "drop_lock"}

FirstFitStep ==
    (last'.op = "checkout" /\ IsSome(last'.ret)) =>
        LET i == Unwrap(last'.ret)
            t == last'.t
        IN  /\ last'.tried = [k \in 1..i |-> k]
            /\ ~Groups[i].locked /\ Groups'[i].locked
            /\ \A j \in 1..NGroups : j # i => Groups'[j] = Groups[j]
            /\ guards'[t] = guards[t] (+) SetToBag({i})
            /\ \A u \in Threads : u # t => guards'[u] = guards[u]
            /\ last'.calm => \A j \in 1..(i - 1) : Groups'[j].locked
FirstFit == [][FirstFitStep]_vars

\* C16 witness: a call with no release during it has passed over a held
\* group and returned the next one.
ReturnedFirstFree ==
    /\ last.op = "checkout" /\ last.calm
    /\ IsSome(last.ret) /\ Unwrap(last.ret) > 1
    /\ last.tried = [k \in 1..Unwrap(last.ret) |-> k]

\* C17: when bind_core returns Ok and its set_cpubind_for_thread succeeded,
\* the calling thread's CPU binding is exactly one processing unit, the first
\* (lowest) member of the allowed cpuset of the core at the index given; and
\* when set_membind succeeded, that same one-unit set is the thread's memory
\* binding, with the BIND policy.
BoundToFirstPU ==
    (last.op = "bind_core" /\ last.res = "Ok") =>
        LET cs == Unwrap(allowed_cpuset(TOPOLOGY.data, last.idx))
        IN  \E pu \in cs :
                /\ \A q \in cs : pu <= q
                /\ last.cpu_ok => cpubind[last.t] = {pu}
                /\ last.mem_ok =>
                      membind[last.t] = [set |-> {pu},
                                         policy |-> "MEMBIND_BIND"]

\* C17 witness: bind_core has bound a thread to a core of two processing
\* units, both set calls succeeding: the thread is on the first of the two.
BoundToOneOfTwo ==
    /\ last.op = "bind_core" /\ last.res = "Ok"
    /\ last.cpu_ok /\ last.mem_ok
    /\ Cardinality(Unwrap(allowed_cpuset(TOPOLOGY.data, last.idx))) = 2
    /\ Cardinality(cpubind[last.t]) = 1
    /\ membind[last.t].set = cpubind[last.t]

\* C18: workers that repeat checkout, bind, work, end of scope and release,
\* none of them panicking, never deadlock.  In every reachable state some
\* worker can take a step; a worker inside checkout_core_group can always
\* take its next step (it waits for nothing); and a worker that waits for
\* the topology lock either can take it now, or the lock is held by another
\* worker whose next step is enabled as it stands, takes no lock and
\* leaves the topology lock free.
Waiting == {t \in Threads : pc[t] \in {"bind_lock", "drop_lock"}}
DeadlockFree ==
    /\ ENABLED WorkNext
    /\ \A t \in Threads : t \notin Waiting => ENABLED Flow(t)
    /\ \A t \in Waiting :
          \/ ENABLED (BindLock(t) \/ DropLock(t))
          \/ \E u \in UnderTopology \ {t} :
                ENABLED ((BindBody(u) \/ DropBody(u))
                            /\ ~TOPOLOGY'.locked /\ guards' = guards
                            /\ CORE_GROUPS' = CORE_GROUPS)

\* C18 witness: a worker that holds a group waits for the topology lock in
\* bind_core while another worker, which holds a group too, restores its
\* binding under the lock.
WaitsOnRestorer ==
    \E t, u \in Threads :
        /\ pc[t] = "bind_lock" /\ guards[t] # EmptyBag
        /\ pc[u] = "drop_body" /\ guards[u] # EmptyBag
        /\ ~ENABLED BindLock(t)

\* C19: one thread nests bind scopes and ends them in the reverse of the
\* order it entered them.  When the last of its tokens has been dropped,
\* with the snapshot there and set_cpubind_for_thread succeeding, the
\* thread's CPU binding is what it was before the bind_core that made the
\* first token of the nest.
NestedRestores ==
    (/\ last.op = "drop" /\ last.res = "Ok"
     /\ IsSome(last.prior) /\ last.cpu_ok
     /\ tokens[last.t] = <<>>) =>
        cpubind[last.t] = last.by.base

\* C19 witness: the thread has bound itself to a core, bound itself again
\* within that scope, and both scopes have ended, the inner one first; it
\* is back on the binding it inherited.
UnwoundNest ==
    /\ last.op = "drop" /\ last.res = "Ok"
    /\ IsSome(last.prior) /\ last.cpu_ok
    /\ last.by.deep /\ last.by.cpu_ok
    /\ tokens[last.t] = <<>>
    /\ cpubind[last.t] = last.by.base
    /\ \E b \in InheritedBindings : cpubind[last.t] = b.cpu

\* The groups whose lock is poisoned.
Poisoned == {g \in 1..NGroups : Groups[g].poisoned}

\* C20: a group whose holder has panicked with the guard is poisoned for
\* good, and checkout_core_group treats it as busy: nobody holds it and no
\* call returns it, so the guards that exist are at most the groups that
\* are not poisoned; a call during which no guard was released still
\* returns the lowest-indexed group that is neither held nor poisoned, and
\* None only when there is none; and no step of checkout_core_group makes
\* its thread panic.
PoisonedInv ==
    /\ \A g \in Poisoned : ~Groups[g].locked /\ HoldersOf(g) = 0
    /\ TotalGuards <= NGroups - Cardinality(Poisoned)
    /\ (last.op = "checkout" /\ last.calm) =>
          IF IsSome(last.ret)
          THEN \A j \in 1..(Unwrap(last.ret) - 1) :
                  Groups[j].locked \/ Groups[j].poisoned
          ELSE \A j \in 1..NGroups : Groups[j].locked \/ Groups[j].poisoned
PoisonedStep ==
    /\ \A g \in Poisoned : Groups'[g].poisoned
    /\ (last'.op = "checkout" /\ IsSome(last'.ret)) =>
          /\ Unwrap(last'.ret) \notin Poisoned
          /\ ~Groups'[Unwrap(last'.ret)].poisoned
    /\ \A t \in Threads :
          (pc[t] = "scan" \/ pc'[t] = "scan" \/ last'.op = "checkout") =>
              panicking'[t] = panicking[t]
PoisonedGroupIsBusy == [](PoisonedInv) /\ [][PoisonedStep]_vars

\* C20 witness: the first group is poisoned and free, and a call during
\* which nothing was released has passed over it and returned a later
\* group.
PassedOverPoisoned ==
    /\ last.op = "checkout" /\ last.calm
    /\ IsSome(last.ret) /\ Unwrap(last.ret) > 1
    /\ 1 \in Poisoned /\ ~Groups[1].locked
    /\ \E t \in Threads : panicking[t] /\ guards[t] = EmptyBag

====
